---- MODULE Spec2Model ----
(***************************************************************************)
(* A model of the ROBDD manager of src/bdd.py (class BDDManager): the node *)
(* store with its deduplication index, make, the Apply operators, the      *)
(* tokenizer and the recursive-descent parser.                             *)
(*                                                                         *)
(* References are 0-based as in the source: the node of reference i is     *)
(* node_list[i + 1].  A Node is a record holding the fields that are not   *)
(* None in the source: [terminal_value] for a terminal node, [variable,    *)
(* low_child, high_child] for a decision node.  A call returns either      *)
(* [s, r, exc |-> "none"] (the manager afterwards and the returned value)  *)
(* or [s, exc] (the manager as the raise left it and the exception).       *)
(***************************************************************************)
EXTENDS Integers, Sequences, FiniteSets, TLC

VARIABLES variable_ordering, var_level, node_list, node_to_index,
          tokens, current_pos, call, outcome, earlier, stack

vars == <<variable_ordering, var_level, node_list, node_to_index,
          tokens, current_pos, call, outcome, earlier, stack>>

(***************************************************************************)
(* Bounds of the exploration.                                              *)
(***************************************************************************)
\* A public operation is started only while the store holds at most MaxNodes nodes.
MaxNodes == 5

\* Where make is called directly too, an operation is started only while the
\* store holds at most MaxMakeNodes nodes.
MaxMakeNodes == 4

\* get_node is called with indices from -(len + IndexSlack) to len + IndexSlack.
IndexSlack == 1

\* The longest formula string of the formulas drawn character by character.
MaxFormulaLen == 3

(***************************************************************************)
(* Exceptions, named by the Python exception and the start of its message. *)
(***************************************************************************)
NoExc == "none"
UnknownVariableError == "ValueError: Unknown variable"
EndOfFormulaError == "ValueError: Unexpected end of formula"
MissingParenError == "ValueError: Missing closing parenthesis"
UnexpectedTokenError == "ValueError: Unexpected token"
TrailingTokensError == "ValueError: Unexpected tokens at end"
IndexError == "IndexError"

Return(s, r) == [s |-> s, r |-> r, exc |-> NoExc]
Raise(s, e) == [s |-> s, exc |-> e]

\* "x = <call>; <rest>": the call is made once; when it raises, the exception
\* leaves the caller, and otherwise the rest goes on from what it returned.
Bind(called, Rest(_)) ==
    LET done == CHOOSE x \in {called} : TRUE
    IN  IF done.exc # NoExc THEN done ELSE Rest(done)

(***************************************************************************)
(* Node                                                                    *)
(***************************************************************************)
TerminalNode(value) == [terminal_value |-> value]
DecisionNode(variable, low_idx, high_idx) ==
    [variable |-> variable, low_child |-> low_idx, high_child |-> high_idx]

is_terminal(node) == "terminal_value" \in DOMAIN node

(***************************************************************************)
(* BDDManager: construction                                                *)
(***************************************************************************)
\* var_level[name] is the position of name in the ordering; enumerate() lets
\* the last occurrence of a repeated name win.
VarLevelOf(ordering) ==
    [v \in {ordering[i] : i \in 1..Len(ordering)} |->
        (CHOOSE i \in 1..Len(ordering) :
            ordering[i] = v /\ \A j \in (i + 1)..Len(ordering) : ordering[j] # v) - 1]

\* self.FALSE and self.TRUE: the references _add_node gave the two terminals.
self_FALSE == 0
self_TRUE == 1

\* float('inf'): a level above the level of every variable of the ordering.
Infinity == Len(variable_ordering)

\* LevelOf with the levels counted from the end of the ordering.
LevelOfReversed(variable) ==
    IF variable \in DOMAIN var_level
    THEN Len(variable_ordering) - 1 - var_level[variable]
    ELSE Infinity

LevelOf(variable) ==
    IF variable \in DOMAIN var_level THEN var_level[variable] ELSE Infinity

(***************************************************************************)
(* Node table                                                              *)
(***************************************************************************)
\* _add_node without the lookup of an equal node.
AddNodeAlwaysAppend(s, node) ==
    LET new_index == Len(s.node_list)
    IN  Return([s EXCEPT !.node_list = Append(@, node),
                         !.node_to_index =
                             [n \in DOMAIN @ \cup {node} |->
                                 IF n = node THEN new_index ELSE @[n]]],
               new_index)

\* _add_node that appends without recording the node in the index.
AddNodeNoIndex(s, node) ==
    IF node \in DOMAIN s.node_to_index
    THEN Return(s, s.node_to_index[node])
    ELSE Return([s EXCEPT !.node_list = Append(@, node)], Len(s.node_list))

AddNode(s, node) ==
    IF node \in DOMAIN s.node_to_index
    THEN Return(s, s.node_to_index[node])
    ELSE LET new_index == Len(s.node_list)
         IN  Return([s EXCEPT !.node_list = Append(@, node),
                              !.node_to_index = @ @@ (node :> new_index)],
                    new_index)

\* list indexing: a negative index counts from the end of the list.
GetNode(s, index) ==
    LET n == Len(s.node_list)
    IN  IF index >= 0 /\ index < n THEN Return(s, s.node_list[index + 1])
        ELSE IF index < 0 /\ index >= -n THEN Return(s, s.node_list[n + index + 1])
        ELSE Raise(s, IndexError)

(***************************************************************************)
(* make, create_variable                                                   *)
(***************************************************************************)
\* make without the test low_idx == high_idx.
MakeNoRule1(s, variable, low_idx, high_idx) ==
    AddNode(s, DecisionNode(variable, low_idx, high_idx))

Make(s, variable, low_idx, high_idx) ==
    IF low_idx = high_idx
    THEN Return(s, low_idx)
    ELSE AddNode(s, DecisionNode(variable, low_idx, high_idx))

CreateVariable(s, var_name) ==
    IF var_name \notin DOMAIN var_level
    THEN Raise(s, UnknownVariableError)
    ELSE Make(s, var_name, self_FALSE, self_TRUE)

(***************************************************************************)
(* Boolean operations                                                      *)
(***************************************************************************)
RECURSIVE ApplyNot(_, _)
ApplyNot(s, node_idx) ==
    Bind(GetNode(s, node_idx), LAMBDA got :
        LET node == got.r
        IN  IF is_terminal(node)
            THEN IF node.terminal_value
                 THEN Return(s, self_FALSE)
                 ELSE Return(s, self_TRUE)
            ELSE Bind(ApplyNot(s, node.low_child), LAMBDA new_low :
                 Bind(ApplyNot(new_low.s, node.high_child), LAMBDA new_high :
                 Make(new_high.s, node.variable, new_low.r, new_high.r))))

RECURSIVE ApplyAnd(_, _, _)

\* apply_and whose third level case pairs idx1 with node2's low child twice.
ApplyAndHighFromLow(s, idx1, idx2) ==
    Bind(GetNode(s, idx1), LAMBDA got1 :
    Bind(GetNode(s, idx2), LAMBDA got2 :
        IF idx1 = self_FALSE \/ idx2 = self_FALSE THEN Return(s, self_FALSE)
        ELSE IF idx1 = self_TRUE THEN Return(s, idx2)
        ELSE IF idx2 = self_TRUE THEN Return(s, idx1)
        ELSE LET node1 == got1.r
                 node2 == got2.r
                 level1 == LevelOf(node1.variable)
                 level2 == LevelOf(node2.variable)
             IN  IF level1 = level2
                 THEN Bind(ApplyAnd(s, node1.low_child, node2.low_child), LAMBDA new_low :
                      Bind(ApplyAnd(new_low.s, node1.high_child, node2.high_child),
                           LAMBDA new_high :
                      Make(new_high.s, node1.variable, new_low.r, new_high.r)))
                 ELSE IF level1 < level2
                 THEN Bind(ApplyAnd(s, node1.low_child, idx2), LAMBDA new_low :
                      Bind(ApplyAnd(new_low.s, node1.high_child, idx2), LAMBDA new_high :
                      Make(new_high.s, node1.variable, new_low.r, new_high.r)))
                 ELSE Bind(ApplyAnd(s, idx1, node2.low_child), LAMBDA new_low :
                      Bind(ApplyAnd(new_low.s, idx1, node2.low_child), LAMBDA new_high :
                      Make(new_high.s, node2.variable, new_low.r, new_high.r)))))

ApplyAnd(s, idx1, idx2) ==
    Bind(GetNode(s, idx1), LAMBDA got1 :
    Bind(GetNode(s, idx2), LAMBDA got2 :
        IF idx1 = self_FALSE \/ idx2 = self_FALSE THEN Return(s, self_FALSE)
        ELSE IF idx1 = self_TRUE THEN Return(s, idx2)
        ELSE IF idx2 = self_TRUE THEN Return(s, idx1)
        ELSE LET node1 == got1.r
                 node2 == got2.r
                 level1 == LevelOf(node1.variable)
                 level2 == LevelOf(node2.variable)
             IN  IF level1 = level2
                 THEN Bind(ApplyAnd(s, node1.low_child, node2.low_child), LAMBDA new_low :
                      Bind(ApplyAnd(new_low.s, node1.high_child, node2.high_child),
                           LAMBDA new_high :
                      Make(new_high.s, node1.variable, new_low.r, new_high.r)))
                 ELSE IF level1 < level2
                 THEN Bind(ApplyAnd(s, node1.low_child, idx2), LAMBDA new_low :
                      Bind(ApplyAnd(new_low.s, node1.high_child, idx2), LAMBDA new_high :
                      Make(new_high.s, node1.variable, new_low.r, new_high.r)))
                 ELSE Bind(ApplyAnd(s, idx1, node2.low_child), LAMBDA new_low :
                      Bind(ApplyAnd(new_low.s, idx1, node2.high_child), LAMBDA new_high :
                      Make(new_high.s, node2.variable, new_low.r, new_high.r)))))

\* apply_or without the negation of the conjunction.
ApplyOrNoFinalNot(s, idx1, idx2) ==
    Bind(ApplyNot(s, idx1), LAMBDA not_1 :
    Bind(ApplyNot(not_1.s, idx2), LAMBDA not_2 :
    ApplyAnd(not_2.s, not_1.r, not_2.r)))

ApplyOr(s, idx1, idx2) ==
    Bind(ApplyNot(s, idx1), LAMBDA not_1 :
    Bind(ApplyNot(not_1.s, idx2), LAMBDA not_2 :
    Bind(ApplyAnd(not_2.s, not_1.r, not_2.r), LAMBDA and_result :
    ApplyNot(and_result.s, and_result.r))))

\* apply_xor whose second conjunction takes idx1 instead of its negation.
ApplyXorNoNotA(s, idx1, idx2) ==
    Bind(ApplyNot(s, idx2), LAMBDA not_b :
    Bind(ApplyAnd(not_b.s, idx1, not_b.r), LAMBDA a_and_not_b :
    Bind(ApplyAnd(a_and_not_b.s, idx1, idx2), LAMBDA not_a_and_b :
    ApplyOr(not_a_and_b.s, a_and_not_b.r, not_a_and_b.r))))

ApplyXor(s, idx1, idx2) ==
    Bind(ApplyNot(s, idx2), LAMBDA not_b :
    Bind(ApplyAnd(not_b.s, idx1, not_b.r), LAMBDA a_and_not_b :
    Bind(ApplyNot(a_and_not_b.s, idx1), LAMBDA not_a :
    Bind(ApplyAnd(not_a.s, not_a.r, idx2), LAMBDA not_a_and_b :
    ApplyOr(not_a_and_b.s, a_and_not_b.r, not_a_and_b.r)))))

\* apply_implies without the negation of the antecedent.
ApplyImpliesNoNot(s, idx1, idx2) == ApplyOr(s, idx1, idx2)

ApplyImplies(s, idx1, idx2) ==
    Bind(ApplyNot(s, idx1), LAMBDA not_a :
    ApplyOr(not_a.s, not_a.r, idx2))

ApplyIff(s, idx1, idx2) ==
    Bind(ApplyImplies(s, idx1, idx2), LAMBDA a_implies_b :
    Bind(ApplyImplies(a_implies_b.s, idx2, idx1), LAMBDA b_implies_a :
    ApplyAnd(b_implies_a.s, a_implies_b.r, b_implies_a.r)))

(***************************************************************************)
(* Formula parser.  A formula string is a sequence of one-character        *)
(* strings; a token is a string.                                           *)
(***************************************************************************)
\* The characters for which str.isalnum() holds, among those of the formulas.
AlnumChars ==
    {"a", "b", "c", "d", "e", "f", "g", "h", "i", "j", "k", "l", "m",
     "n", "o", "p", "q", "r", "s", "t", "u", "v", "w", "x", "y", "z",
     "A", "B", "C", "D", "E", "F", "G", "H", "I", "J", "K", "L", "M",
     "N", "O", "P", "Q", "R", "S", "T", "U", "V", "W", "X", "Y", "Z",
     "0", "1", "2", "3", "4", "5", "6", "7", "8", "9"}

IsIdentChar(ch) == ch \in AlnumChars \/ ch = "_"

\* formula[i:j] of Python, i and j 0-based, clipped at the end of the string.
Slice(formula, i, j) ==
    SubSeq(formula, i + 1, IF j < Len(formula) THEN j ELSE Len(formula))

\* formula_string.replace(" ", "")
RemoveSpaces(formula_string) == SelectSeq(formula_string, LAMBDA ch : ch # " ")

RECURSIVE Concat(_)
Concat(chars) == IF chars = <<>> THEN "" ELSE Head(chars) \o Concat(Tail(chars))

\* The end of the run of identifier characters that starts at i.
RECURSIVE IdentEnd(_, _)
IdentEnd(formula, i) ==
    IF i < Len(formula) /\ IsIdentChar(formula[i + 1])
    THEN IdentEnd(formula, i + 1)
    ELSE i

RECURSIVE TokenizeFrom(_, _, _)
TokenizeFrom(formula, i, toks) ==
    IF ~(i < Len(formula)) THEN toks
    ELSE LET ch == formula[i + 1]
         IN  IF ch \in {"(", ")", "&", "|", "~", "^"}
             THEN TokenizeFrom(formula, i + 1, Append(toks, ch))
             ELSE IF Slice(formula, i, i + 2) = <<"-", ">">>
             THEN TokenizeFrom(formula, i + 2, Append(toks, "->"))
             ELSE IF Slice(formula, i, i + 3) = <<"<", "-", ">">>
             THEN TokenizeFrom(formula, i + 3, Append(toks, "<->"))
             ELSE IF IsIdentChar(ch)
             THEN LET end == IdentEnd(formula, i)
                  IN  TokenizeFrom(formula, end,
                                   Append(toks, Concat(Slice(formula, i, end))))
             ELSE TokenizeFrom(formula, i + 1, toks)

Tokenize(formula) == TokenizeFrom(formula, 0, <<>>)

\* None, as _peek returns it: no token is the empty string.
None == ""

Peek(s) ==
    IF s.current_pos < Len(s.tokens) THEN s.tokens[s.current_pos + 1] ELSE None

Consume(s) == Return([s EXCEPT !.current_pos = @ + 1], Peek(s))

RECURSIVE ParseIff(_)
RECURSIVE ParseIffLoop(_, _)
RECURSIVE ParseImplies(_)
RECURSIVE ParseImpliesLoop(_, _)
RECURSIVE ParseXor(_)
RECURSIVE ParseXorLoop(_, _)
RECURSIVE ParseOr(_)
RECURSIVE ParseOrLoop(_, _)
RECURSIVE ParseAnd(_)
RECURSIVE ParseAndLoop(_, _)
RECURSIVE ParseNot(_)
RECURSIVE ParsePrimary(_)

\* The while loop of _parse_iff, left being the running result.
ParseIffLoop(s, left) ==
    IF Peek(s) = "<->"
    THEN Bind(ParseImplies(Consume(s).s), LAMBDA right :
         Bind(ApplyIff(right.s, left, right.r), LAMBDA applied :
         ParseIffLoop(applied.s, applied.r)))
    ELSE Return(s, left)

ParseIff(s) ==
    Bind(ParseImplies(s), LAMBDA left : ParseIffLoop(left.s, left.r))

ParseImpliesLoop(s, left) ==
    IF Peek(s) = "->"
    THEN Bind(ParseXor(Consume(s).s), LAMBDA right :
         Bind(ApplyImplies(right.s, left, right.r), LAMBDA applied :
         ParseImpliesLoop(applied.s, applied.r)))
    ELSE Return(s, left)

ParseImplies(s) ==
    Bind(ParseXor(s), LAMBDA left : ParseImpliesLoop(left.s, left.r))

ParseXorLoop(s, left) ==
    IF Peek(s) = "^"
    THEN Bind(ParseOr(Consume(s).s), LAMBDA right :
         Bind(ApplyXor(right.s, left, right.r), LAMBDA applied :
         ParseXorLoop(applied.s, applied.r)))
    ELSE Return(s, left)

ParseXor(s) ==
    Bind(ParseOr(s), LAMBDA left : ParseXorLoop(left.s, left.r))

ParseOrLoop(s, left) ==
    IF Peek(s) = "|"
    THEN Bind(ParseAnd(Consume(s).s), LAMBDA right :
         Bind(ApplyOr(right.s, left, right.r), LAMBDA applied :
         ParseOrLoop(applied.s, applied.r)))
    ELSE Return(s, left)

ParseOr(s) ==
    Bind(ParseAnd(s), LAMBDA left : ParseOrLoop(left.s, left.r))

ParseAndLoop(s, left) ==
    IF Peek(s) = "&"
    THEN Bind(ParseNot(Consume(s).s), LAMBDA right :
         Bind(ApplyAnd(right.s, left, right.r), LAMBDA applied :
         ParseAndLoop(applied.s, applied.r)))
    ELSE Return(s, left)

ParseAnd(s) ==
    Bind(ParseNot(s), LAMBDA left : ParseAndLoop(left.s, left.r))

ParseNot(s) ==
    IF Peek(s) = "~"
    THEN Bind(ParseNot(Consume(s).s), LAMBDA operand :
         ApplyNot(operand.s, operand.r))
    ELSE ParsePrimary(s)

ParsePrimary(s) ==
    LET token == Peek(s)
    IN  IF token = None THEN Raise(s, EndOfFormulaError)
        ELSE IF token = "("
        THEN Bind(ParseIff(Consume(s).s), LAMBDA result :
             IF Peek(result.s) # ")"
             THEN Raise(result.s, MissingParenError)
             ELSE Return(Consume(result.s).s, result.r))
        \* token[0].isalnum() or token[0] == "_": a token of _tokenize is an
        \* operator, a parenthesis or a run of identifier characters.
        ELSE IF token \notin {"(", ")", "&", "|", "~", "^", "->", "<->"}
        THEN CreateVariable(Consume(s).s, token)
        ELSE Raise(s, UnexpectedTokenError)

\* self._tokens = self._tokenize(formula_string)
SetTokens(s, formula_string) ==
    Return([s EXCEPT !.tokens = Tokenize(RemoveSpaces(formula_string))], None)

\* parse that takes up the position a previous parse left instead of 0.
ParseKeepPos(s, formula_string) ==
    Bind(SetTokens(s, formula_string), LAMBDA tokenized :
    Bind(ParseIff(tokenized.s), LAMBDA result :
         IF result.s.current_pos < Len(result.s.tokens)
         THEN Raise(result.s, TrailingTokensError)
         ELSE result))

\* parse without the check that no token is left after the formula.
ParseNoEndCheck(s, formula_string) ==
    Bind(SetTokens(s, formula_string), LAMBDA tokenized :
    ParseIff([tokenized.s EXCEPT !.current_pos = 0]))

Parse(s, formula_string) ==
    Bind(SetTokens(s, formula_string), LAMBDA tokenized :
    Bind(ParseIff([tokenized.s EXCEPT !.current_pos = 0]), LAMBDA result :
         IF result.s.current_pos < Len(result.s.tokens)
         THEN Raise(result.s, TrailingTokensError)
         ELSE result))

(***************************************************************************)
(* The manager as a state machine: one action per public operation.  call  *)
(* is the operation that has just returned, with its arguments, and        *)
(* outcome what it returned or raised; the caller takes the outcome        *)
(* (TakeOutcome) before it calls again.  earlier is the last successful    *)
(* parse the caller has taken.  stack holds the calls of apply_not and      *)
(* apply_and in progress where their recursion is followed call by call     *)
(* (SpecApply below), and is empty elsewhere.                               *)
(***************************************************************************)
\* The six orderings of A, B, C.
Permutations3 ==
    {<<"A", "B", "C">>, <<"A", "C", "B">>, <<"B", "A", "C">>,
     <<"B", "C", "A">>, <<"C", "A", "B">>, <<"C", "B", "A">>}

\* The orderings a manager is constructed with.
Orderings == {<<"a", "b">>, <<"b", "a">>, <<"A", "B", "C">>}

VarNames == {"a", "b", "A", "B", "C", "z"}

F_a_and_b == <<"a", " ", "&", " ", "b">>
F_b_and_a == <<"b", " ", "&", " ", "a">>
F_a_xor_b == <<"a", " ", "^", " ", "b">>
F_a_or_not_a == <<"a", " ", "|", " ", "~", "a">>
F_a_and_not_a == <<"a", " ", "&", " ", "~", "a">>
F_a_and_z == <<"a", " ", "&", " ", "z">>
F_unclosed == <<"(", "a", " ", "&", " ", "b">>
F_empty == <<>>
F_no_operand == <<"a", " ", "&">>
F_trailing == <<"a", ")", "b">>
F_demorgan == <<"~", "(", "~", "a", "|", "~", "b", ")">>
F_iff == <<"a", "<", "-", ">", "b">>
F_not_xor == <<"~", "(", "a", "^", "b", ")">>
F_transitivity ==
    <<"(", "(", "A", " ", "-", ">", " ", "B", ")", " ", "&", " ",
      "(", "B", " ", "-", ">", " ", "C", ")", ")", " ", "-", ">", " ",
      "(", "A", " ", "-", ">", " ", "C", ")">>
F_A_and_C == <<"A", "&", "C">>
F_C_and_A == <<"C", " ", "&", " ", "A">>

Formulas ==
    {F_a_and_b, F_b_and_a, F_a_xor_b, F_a_or_not_a, F_a_and_not_a, F_a_and_z,
     F_unclosed, F_empty, F_no_operand, F_trailing, F_demorgan, F_iff,
     F_not_xor, F_transitivity, F_A_and_C, F_C_and_A}

Self ==
    [node_list |-> node_list, node_to_index |-> node_to_index,
     tokens |-> tokens, current_pos |-> current_pos]

\* The state of the manager after __init__, before any call of parse.
NewManager ==
    LET empty == [node_list |-> <<>>, node_to_index |-> <<>>,
                  tokens |-> <<>>, current_pos |-> 0]
        f == AddNode(empty, TerminalNode(FALSE))
        t == AddNode(f.s, TerminalNode(TRUE))
    IN  t.s

NoCall == [name |-> "none"]
NoOutcome == [exc |-> NoExc]
NoParse == [formula |-> <<>>, done |-> FALSE]

InitOver(orderings) ==
    /\ variable_ordering \in orderings
    /\ var_level = VarLevelOf(variable_ordering)
    /\ node_list = NewManager.node_list
    /\ node_to_index = NewManager.node_to_index
    /\ tokens = NewManager.tokens
    /\ current_pos = NewManager.current_pos
    /\ call = NoCall
    /\ outcome = NoOutcome
    /\ earlier = NoParse
    /\ stack = <<>>

Init == InitOver(Orderings)

Refs == 0..(Len(node_list) - 1)

\* The manager takes the state the call left; the call and its outcome are
\* recorded.
Finish(c, called) ==
    \E res \in {called} :
        /\ node_list' = res.s.node_list
        /\ node_to_index' = res.s.node_to_index
        /\ tokens' = res.s.tokens
        /\ current_pos' = res.s.current_pos
        /\ call' = c
        /\ outcome' = IF res.exc = NoExc THEN [exc |-> NoExc, r |-> res.r]
                      ELSE [exc |-> res.exc]
        /\ UNCHANGED <<variable_ordering, var_level, earlier, stack>>

\* The caller is between two calls and the store is within the bound.
Open == call = NoCall /\ Len(node_list) <= MaxNodes

\* The caller takes what the call returned or raised.
TakeOutcome ==
    /\ call # NoCall
    /\ call' = NoCall
    /\ outcome' = NoOutcome
    /\ earlier' = IF call.name = "parse" /\ outcome.exc = NoExc
                  THEN [formula |-> call.formula, done |-> TRUE, r |-> outcome.r]
                  ELSE earlier
    /\ UNCHANGED <<variable_ordering, var_level, node_list, node_to_index,
                   tokens, current_pos, stack>>

CallCreateVariable ==
    /\ Open
    /\ \E name \in VarNames :
          Finish([name |-> "create_variable", var_name |-> name],
                 CreateVariable(Self, name))

CallNot ==
    /\ Open
    /\ \E x \in Refs :
          Finish([name |-> "NOT", a |-> x], ApplyNot(Self, x))

CallAnd ==
    /\ Open
    /\ \E a \in Refs, b \in Refs :
          Finish([name |-> "AND", a |-> a, b |-> b], ApplyAnd(Self, a, b))

CallOr ==
    /\ Open
    /\ \E a \in Refs, b \in Refs :
          Finish([name |-> "OR", a |-> a, b |-> b], ApplyOr(Self, a, b))

CallXor ==
    /\ Open
    /\ \E a \in Refs, b \in Refs :
          Finish([name |-> "XOR", a |-> a, b |-> b], ApplyXor(Self, a, b))

CallImplies ==
    /\ Open
    /\ \E a \in Refs, b \in Refs :
          Finish([name |-> "IMPLIES", a |-> a, b |-> b], ApplyImplies(Self, a, b))

CallIff ==
    /\ Open
    /\ \E a \in Refs, b \in Refs :
          Finish([name |-> "IFF", a |-> a, b |-> b], ApplyIff(Self, a, b))

CallParse ==
    /\ Open
    /\ \E f \in Formulas :
          Finish([name |-> "parse", formula |-> f], Parse(Self, f))

CallGetNode ==
    /\ Open
    /\ \E i \in (0 - Len(node_list) - IndexSlack)..(Len(node_list) + IndexSlack) :
          Finish([name |-> "get_node", index |-> i], GetNode(Self, i))

\* The variables of direct calls of make: one of the ordering, one outside it.
MakeVars == {"a", "z"}

\* make called directly with two issued references.
CallMake ==
    /\ Open
    /\ \E v \in MakeVars, low \in Refs, high \in Refs :
          Finish([name |-> "make", variable |-> v, low |-> low, high |-> high],
                 Make(Self, v, low, high))

Next ==
    \/ CallCreateVariable
    \/ CallNot
    \/ CallAnd
    \/ CallOr
    \/ CallXor
    \/ CallImplies
    \/ CallIff
    \/ CallParse
    \/ CallGetNode
    \/ TakeOutcome

Spec == Init /\ [][Next]_vars

\* The public operations on a manager of any ordering of A, B, C.
InitPermutations == InitOver(Permutations3)

SpecPermutations == InitPermutations /\ [][Next]_vars

\* The public operations and direct calls of make, on a smaller store.
SmallStore == Len(node_list) <= MaxMakeNodes

NextWithMake ==
    \/ SmallStore /\ CallMake
    \/ SmallStore /\ CallCreateVariable
    \/ SmallStore /\ CallNot
    \/ SmallStore /\ CallAnd
    \/ SmallStore /\ CallOr
    \/ SmallStore /\ CallXor
    \/ SmallStore /\ CallImplies
    \/ SmallStore /\ CallIff
    \/ SmallStore /\ CallParse
    \/ SmallStore /\ CallGetNode
    \/ TakeOutcome

InitWithMake == InitOver({<<"a", "b">>})

SpecWithMake == InitWithMake /\ [][NextWithMake]_vars

\* parse on every formula string of at most MaxFormulaLen characters over
\* FormulaChars, well formed or not, and on the malformed formulas above.
\* Under the ordering a, b the identifier z is unknown.
FormulaChars == {"(", ")", "&", "~", "a", "z"}

ShortFormulas == UNION {[1..n -> FormulaChars] : n \in 0..MaxFormulaLen}

MalformedFormulas == {F_unclosed, F_empty, F_no_operand, F_trailing}

CallParseShort ==
    /\ Open
    /\ \E f \in ShortFormulas \cup MalformedFormulas :
          Finish([name |-> "parse", formula |-> f], Parse(Self, f))

NextShort == CallParseShort \/ TakeOutcome

InitShort == InitOver({<<"a", "b">>})

SpecShort == InitShort /\ [][NextShort]_vars

(***************************************************************************)
(* apply_not and apply_and call by call.  stack holds one frame for each   *)
(* call in progress, the public call first.  A frame holds the arguments   *)
(* of its call and where the call stands: "enter" before its first         *)
(* statement, "low" and "high" while the recursive call that computes      *)
(* new_low or new_high runs, "done" when it is about to return ret.        *)
(***************************************************************************)
NotFrame(node_idx) == [op |-> "NOT", node_idx |-> node_idx, pc |-> "enter"]

AndFrame(idx1, idx2) ==
    [op |-> "AND", idx1 |-> idx1, idx2 |-> idx2, pc |-> "enter"]

Top == stack[Len(stack)]
Caller == stack[Len(stack) - 1]

\* The statements of a call up to its first return or recursive call.
NotEntry(frame) ==
    Bind(GetNode(Self, frame.node_idx), LAMBDA got :
        LET node == got.r
        IN  IF is_terminal(node)
            THEN IF node.terminal_value
                 THEN Return(Self, [return |-> self_FALSE])
                 ELSE Return(Self, [return |-> self_TRUE])
            ELSE Return(Self, [variable |-> node.variable,
                               low |-> NotFrame(node.low_child),
                               high |-> NotFrame(node.high_child)]))

\* apply_and whose third level case goes on with idx2 whole.
AndEntryKeepsIdx2(frame) ==
    LET idx1 == frame.idx1
        idx2 == frame.idx2
    IN  Bind(GetNode(Self, idx1), LAMBDA got1 :
        Bind(GetNode(Self, idx2), LAMBDA got2 :
            IF idx1 = self_FALSE \/ idx2 = self_FALSE
            THEN Return(Self, [return |-> self_FALSE])
            ELSE IF idx1 = self_TRUE THEN Return(Self, [return |-> idx2])
            ELSE IF idx2 = self_TRUE THEN Return(Self, [return |-> idx1])
            ELSE LET node1 == got1.r
                     node2 == got2.r
                     level1 == LevelOf(node1.variable)
                     level2 == LevelOf(node2.variable)
                 IN  IF level1 = level2
                     THEN Return(Self,
                              [variable |-> node1.variable,
                               low |-> AndFrame(node1.low_child, node2.low_child),
                               high |-> AndFrame(node1.high_child, node2.high_child)])
                     ELSE IF level1 < level2
                     THEN Return(Self,
                              [variable |-> node1.variable,
                               low |-> AndFrame(node1.low_child, idx2),
                               high |-> AndFrame(node1.high_child, idx2)])
                     ELSE Return(Self,
                              [variable |-> node2.variable,
                               low |-> AndFrame(idx1, idx2),
                               high |-> AndFrame(idx1, idx2)])))

AndEntry(frame) ==
    LET idx1 == frame.idx1
        idx2 == frame.idx2
    IN  Bind(GetNode(Self, idx1), LAMBDA got1 :
        Bind(GetNode(Self, idx2), LAMBDA got2 :
            IF idx1 = self_FALSE \/ idx2 = self_FALSE
            THEN Return(Self, [return |-> self_FALSE])
            ELSE IF idx1 = self_TRUE THEN Return(Self, [return |-> idx2])
            ELSE IF idx2 = self_TRUE THEN Return(Self, [return |-> idx1])
            ELSE LET node1 == got1.r
                     node2 == got2.r
                     level1 == LevelOf(node1.variable)
                     level2 == LevelOf(node2.variable)
                 IN  IF level1 = level2
                     THEN Return(Self,
                              [variable |-> node1.variable,
                               low |-> AndFrame(node1.low_child, node2.low_child),
                               high |-> AndFrame(node1.high_child, node2.high_child)])
                     ELSE IF level1 < level2
                     THEN Return(Self,
                              [variable |-> node1.variable,
                               low |-> AndFrame(node1.low_child, idx2),
                               high |-> AndFrame(node1.high_child, idx2)])
                     ELSE Return(Self,
                              [variable |-> node2.variable,
                               low |-> AndFrame(idx1, node2.low_child),
                               high |-> AndFrame(idx1, node2.high_child)])))

Entry(frame) == IF frame.op = "NOT" THEN NotEntry(frame) ELSE AndEntry(frame)

\* The public call a frame stands for, as CallNot and CallAnd record it.
PublicCall(frame) ==
    IF frame.op = "NOT" THEN [name |-> "NOT", a |-> frame.node_idx]
    ELSE [name |-> "AND", a |-> frame.idx1, b |-> frame.idx2]

Idle == stack = <<>>

BeginNot ==
    /\ Open
    /\ Idle
    /\ \E x \in Refs : stack' = <<NotFrame(x)>>
    /\ UNCHANGED <<variable_ordering, var_level, node_list, node_to_index,
                   tokens, current_pos, call, outcome, earlier>>

BeginAnd ==
    /\ Open
    /\ Idle
    /\ \E a \in Refs, b \in Refs : stack' = <<AndFrame(a, b)>>
    /\ UNCHANGED <<variable_ordering, var_level, node_list, node_to_index,
                   tokens, current_pos, call, outcome, earlier>>

\* The call on top runs from its first statement: an exception of get_node
\* leaves every call in progress, a base case makes the call ready to
\* return, and otherwise the call keeps var and what it will call for
\* new_high, and the call that computes new_low starts.
Enter ==
    /\ ~Idle
    /\ Top.pc = "enter"
    /\ \E entry \in {Entry(Top)} :
          IF entry.exc # NoExc
          THEN /\ stack' = <<>>
               /\ call' = PublicCall(stack[1])
               /\ outcome' = [exc |-> entry.exc]
          ELSE /\ stack' =
                    IF "return" \in DOMAIN entry.r
                    THEN [stack EXCEPT ![Len(stack)] =
                             [Top EXCEPT !.pc = "done"] @@ [ret |-> entry.r.return]]
                    ELSE Append([stack EXCEPT ![Len(stack)] =
                                    [Top EXCEPT !.pc = "low"]
                                        @@ [variable |-> entry.r.variable,
                                            high |-> entry.r.high]],
                                entry.r.low)
               /\ UNCHANGED <<call, outcome>>
    /\ UNCHANGED <<variable_ordering, var_level, node_list, node_to_index,
                   tokens, current_pos, earlier>>

\* The call that computed new_low returns: its caller keeps the value and
\* starts the call that computes new_high.
ReturnLow ==
    /\ Len(stack) >= 2
    /\ Top.pc = "done"
    /\ Caller.pc = "low"
    /\ stack' = Append(
          [SubSeq(stack, 1, Len(stack) - 1) EXCEPT ![Len(stack) - 1] =
              [Caller EXCEPT !.pc = "high"] @@ [new_low |-> Top.ret]],
          Caller.high)
    /\ UNCHANGED <<variable_ordering, var_level, node_list, node_to_index,
                   tokens, current_pos, call, outcome, earlier>>

\* The call that computed new_high returns: its caller calls make and is
\* ready to return what make returned.
ReturnHigh ==
    /\ Len(stack) >= 2
    /\ Top.pc = "done"
    /\ Caller.pc = "high"
    /\ \E made \in {Make(Self, Caller.variable, Caller.new_low, Top.ret)} :
          /\ node_list' = made.s.node_list
          /\ node_to_index' = made.s.node_to_index
          /\ stack' =
                [SubSeq(stack, 1, Len(stack) - 1) EXCEPT ![Len(stack) - 1] =
                    [Caller EXCEPT !.pc = "done"] @@ [ret |-> made.r]]
    /\ UNCHANGED <<variable_ordering, var_level, tokens, current_pos,
                   call, outcome, earlier>>

\* The public call returns.
Complete ==
    /\ Len(stack) = 1
    /\ Top.pc = "done"
    /\ stack' = <<>>
    /\ call' = PublicCall(Top)
    /\ outcome' = [exc |-> NoExc, r |-> Top.ret]
    /\ UNCHANGED <<variable_ordering, var_level, node_list, node_to_index,
                   tokens, current_pos, earlier>>

\* One step of the calls in progress.
Step == Enter \/ ReturnLow \/ ReturnHigh \/ Complete

\* The public operations, NOT and AND call by call.  The interpreter runs
\* one thread that never waits: a step that can be taken is taken.
NextApply ==
    \/ BeginNot
    \/ BeginAnd
    \/ Enter
    \/ ReturnLow
    \/ ReturnHigh
    \/ Complete
    \/ Idle /\ CallCreateVariable
    \/ Idle /\ CallOr
    \/ Idle /\ CallXor
    \/ Idle /\ CallImplies
    \/ Idle /\ CallIff
    \/ Idle /\ CallParse
    \/ TakeOutcome

InitApply == InitOver({<<"a", "b">>, <<"A", "B", "C">>})

SpecApply == InitApply /\ [][NextApply]_vars /\ WF_vars(Step)

(***************************************************************************)
(* What a reference and what a formula denote.  These definitions read the *)
(* store and the grammar directly: they use none of the operations above   *)
(* except the tokenizer.                                                   *)
(***************************************************************************)
\* The assignments of the ordering's variables.
Assignments == [DOMAIN var_level -> BOOLEAN]

\* The terminal value reached by following low/high edges from ref.
RECURSIVE Follow(_, _, _)
Follow(nodes, ref, asg) ==
    LET node == nodes[ref + 1]
    IN  IF is_terminal(node) THEN node.terminal_value
        ELSE IF asg[node.variable] THEN Follow(nodes, node.high_child, asg)
        ELSE Follow(nodes, node.low_child, asg)

\* The grammar's binary operators, from the lowest precedence to the highest.
Operators == <<"<->", "->", "^", "|", "&">>

Combine(level, x, y) ==
    CASE level = 1 -> (x <=> y)
      [] level = 2 -> (x => y)
      [] level = 3 -> (x # y)
      [] level = 4 -> (x \/ y)
      [] level = 5 -> (x /\ y)

\* The value of the longest phrase of the grammar rule of the given level
\* that starts at token pos (1-based), and the position after it; ok is FALSE
\* when no phrase starts there or an identifier is not in the ordering.
RECURSIVE ValueAt(_, _, _, _)
RECURSIVE ValueLoop(_, _, _, _, _)
ValueAt(level, toks, pos, asg) ==
    IF level <= Len(Operators)
    THEN LET left == ValueAt(level + 1, toks, pos, asg)
         IN  IF left.ok THEN ValueLoop(level, toks, left.pos, asg, left.v) ELSE left
    ELSE IF pos > Len(toks) THEN [ok |-> FALSE]
    ELSE IF toks[pos] = "~"
    THEN LET operand == ValueAt(level, toks, pos + 1, asg)
         IN  IF operand.ok THEN [operand EXCEPT !.v = ~@] ELSE operand
    ELSE IF toks[pos] = "("
    THEN LET inner == ValueAt(1, toks, pos + 1, asg)
         IN  IF inner.ok /\ inner.pos <= Len(toks) /\ toks[inner.pos] = ")"
             THEN [inner EXCEPT !.pos = @ + 1]
             ELSE [ok |-> FALSE]
    ELSE IF toks[pos] \in DOMAIN asg
    THEN [ok |-> TRUE, v |-> asg[toks[pos]], pos |-> pos + 1]
    ELSE [ok |-> FALSE]

ValueLoop(level, toks, pos, asg, left) ==
    IF pos <= Len(toks) /\ toks[pos] = Operators[level]
    THEN LET right == ValueAt(level + 1, toks, pos + 1, asg)
         IN  IF right.ok
             THEN ValueLoop(level, toks, right.pos, asg, Combine(level, left, right.v))
             ELSE right
    ELSE [ok |-> TRUE, v |-> left, pos |-> pos]

Value(formula, asg) == ValueAt(1, Tokenize(RemoveSpaces(formula)), 1, asg)

\* formula is a formula of the grammar over the variables of the ordering.
OverOrdering(formula) ==
    \A asg \in Assignments :
        LET val == Value(formula, asg)
        IN  val.ok /\ val.pos = Len(Tokenize(RemoveSpaces(formula))) + 1

SameFunction(f, g) ==
    /\ OverOrdering(f)
    /\ OverOrdering(g)
    /\ \A asg \in Assignments : Value(f, asg).v = Value(g, asg).v

IsRef(x) == x \in Refs
Returned == outcome.exc = NoExc

DecisionRefs == {i \in Refs : ~is_terminal(node_list[i + 1])}

(***************************************************************************)
(* Claims                                                                  *)
(***************************************************************************)

\* C1 (canonicity): a parse of a formula over the ordering returns a
\* reference, and when the caller's last successful parse was of a formula
\* that denotes the same Boolean function, it returns that parse's
\* reference, whatever was called in between.
C1_Canonicity ==
    call.name = "parse" =>
        /\ OverOrdering(call.formula) => Returned
        /\ (Returned /\ earlier.done /\ SameFunction(earlier.formula, call.formula))
               => outcome.r = earlier.r

\* "b & a" parsed after "a & b" (or after its De Morgan form) on a manager
\* that knows both variables, the reference being a Decision node.
C1_Witness ==
    /\ call.name = "parse"
    /\ call.formula = F_b_and_a
    /\ earlier.done
    /\ earlier.formula \in {F_a_and_b, F_demorgan}
    /\ Returned
    /\ outcome.r \in DecisionRefs

\* C2 (AND computes conjunction): AND of two issued references returns a
\* reference from which, under every assignment, the edges lead to TRUE
\* exactly when they lead to TRUE from both operands.
C2_AndIsConjunction ==
    call.name = "AND" =>
        /\ Returned
        /\ IsRef(outcome.r)
        /\ \A asg \in Assignments :
              Follow(node_list, outcome.r, asg)
                  = (Follow(node_list, call.a, asg) /\ Follow(node_list, call.b, asg))

\* AND of two Decision nodes where the second operand's variable comes first
\* in the ordering, returning a node that is neither operand nor a terminal.
C2_Witness ==
    /\ call.name = "AND"
    /\ call.a \in DecisionRefs
    /\ call.b \in DecisionRefs
    /\ var_level[node_list[call.b + 1].variable]
           < var_level[node_list[call.a + 1].variable]
    /\ Returned
    /\ outcome.r \in DecisionRefs \ {call.a, call.b}

\* No stored Decision node has low_child = high_child.
NoRedundantNode ==
    \A i \in DecisionRefs : node_list[i + 1].low_child # node_list[i + 1].high_child

\* A call make(v, r, r) returns r and changes neither the store nor the index.
MakeOfEqualChildren ==
    (call'.name = "make" /\ call'.low = call'.high) =>
        /\ outcome' = [exc |-> NoExc, r |-> call'.low]
        /\ node_list' = node_list
        /\ node_to_index' = node_to_index

\* C3 (reduction rule 1): make(v, r, r) returns r and leaves the node store
\* and the deduplication index as they were, for any variable v and any
\* issued reference r, and in every reachable state no stored Decision node
\* has low_child = high_child.
C3_ReductionRule1 == []NoRedundantNode /\ [][MakeOfEqualChildren]_vars

\* make(v, r, r) has returned r, r being a Decision node.
C3_Witness ==
    /\ call.name = "make"
    /\ call.low = call.high
    /\ call.low \in DecisionRefs
    /\ outcome = [exc |-> NoExc, r |-> call.low]

\* No two indices of the store hold equal nodes.
StoredOnce ==
    \A i \in Refs, j \in Refs : node_list[i + 1] = node_list[j + 1] => i = j

\* The index maps exactly the stored nodes, each to the index where it is.
IndexExact ==
    /\ DOMAIN node_to_index = {node_list[i + 1] : i \in Refs}
    /\ \A i \in Refs : node_to_index[node_list[i + 1]] = i

\* A call of make for a stored triple returns the reference of the stored
\* node and changes neither the store nor the index.
MakeOfStoredTriple ==
    call'.name = "make" =>
        \A i \in Refs :
            node_list[i + 1] = DecisionNode(call'.variable, call'.low, call'.high) =>
                /\ outcome' = [exc |-> NoExc, r |-> i]
                /\ node_list' = node_list
                /\ node_to_index' = node_to_index

\* C4 (reduction rule 2): in every state reachable by calls of make and of
\* the public operations no two indices of the store hold equal nodes and the
\* index maps exactly the stored nodes, each to the index where it is stored;
\* make of a triple that is stored returns its reference without growing the
\* store.
C4_ReductionRule2 == [](StoredOnce /\ IndexExact) /\ [][MakeOfStoredTriple]_vars

\* make has returned the reference of a Decision node that was stored before
\* the call (it is not the last node of the store).
C4_Witness ==
    /\ call.name = "make"
    /\ call.low # call.high
    /\ Returned
    /\ outcome.r < Len(node_list) - 1
    /\ node_list[outcome.r + 1] = DecisionNode(call.variable, call.low, call.high)

\* The level of the variable ref tests, a terminal counting as above every
\* level; read from var_level, not through the operations.
TopLevel(ref) ==
    IF is_terminal(node_list[ref + 1])
    THEN Len(variable_ordering)
    ELSE var_level[node_list[ref + 1].variable]

Ordered(i) ==
    LET node == node_list[i + 1]
    IN  /\ node.low_child \in Refs
        /\ node.high_child \in Refs
        /\ node.variable \in DOMAIN var_level
        /\ var_level[node.variable] < TopLevel(node.low_child)
        /\ var_level[node.variable] < TopLevel(node.high_child)

\* C5 (ordering invariant): in every state the public operations reach, the
\* children of every stored Decision node are indices of the store, and the
\* level of its variable is strictly less than the level of the top variable
\* of either child.
C5_OrderingInvariant == \A i \in DecisionRefs : Ordered(i)

\* AND has returned a Decision node one of whose children is a Decision node
\* that skips a level of the ordering.
C5_Witness ==
    /\ call.name = "AND"
    /\ Returned
    /\ outcome.r \in DecisionRefs
    /\ \E c \in {node_list[outcome.r + 1].low_child, node_list[outcome.r + 1].high_child} :
          /\ c \in DecisionRefs
          /\ TopLevel(c) > TopLevel(outcome.r) + 1

\* C6 (terminal identities): AND(TRUE, x) = x, AND(FALSE, x) = FALSE,
\* OR(TRUE, x) = TRUE and OR(FALSE, x) = x, as references, for every issued x.
C6_TerminalIdentities ==
    /\ (call.name = "AND" /\ call.a = self_TRUE)
           => outcome = [exc |-> NoExc, r |-> call.b]
    /\ (call.name = "AND" /\ call.a = self_FALSE)
           => outcome = [exc |-> NoExc, r |-> self_FALSE]
    /\ (call.name = "OR" /\ call.a = self_TRUE)
           => outcome = [exc |-> NoExc, r |-> self_TRUE]
    /\ (call.name = "OR" /\ call.a = self_FALSE)
           => outcome = [exc |-> NoExc, r |-> call.b]

\* OR(FALSE, x) has returned x, x being a Decision node with a Decision child.
C6_Witness ==
    /\ call.name = "OR"
    /\ call.a = self_FALSE
    /\ call.b \in DecisionRefs
    /\ node_list[call.b + 1].high_child \in DecisionRefs
    /\ outcome = [exc |-> NoExc, r |-> call.b]

\* The references reachable from ref along low/high edges, ref included.
RECURSIVE ReachableFrom(_, _)
ReachableFrom(nodes, ref) ==
    IF is_terminal(nodes[ref + 1]) THEN {ref}
    ELSE {ref} \cup ReachableFrom(nodes, nodes[ref + 1].low_child)
               \cup ReachableFrom(nodes, nodes[ref + 1].high_child)

\* The Decision nodes reachable from ref that test variable.
Testing(variable, ref) ==
    {i \in ReachableFrom(node_list, ref) \cap DecisionRefs :
        node_list[i + 1].variable = variable}

XorParsed == variable_ordering = <<"a", "b">> /\ call = [name |-> "parse", formula |-> F_a_xor_b]

\* C7 as claimed (XOR parity): with ordering ["a", "b"], parse("a ^ b")
\* returns a Decision node from which exactly one node testing a and exactly
\* one node testing b are reachable.
C7_OneNodePerLevel ==
    XorParsed =>
        /\ Returned
        /\ outcome.r \in DecisionRefs
        /\ Cardinality(Testing("a", outcome.r)) = 1
        /\ Cardinality(Testing("b", outcome.r)) = 1

\* C7 as amended: with ordering ["a", "b"], parse("a ^ b") returns a Decision
\* node, distinct from TRUE and FALSE, from which exactly one node testing a
\* and exactly two nodes testing b are reachable, none with equal children.
C7_XorParity ==
    XorParsed =>
        /\ Returned
        /\ outcome.r \in DecisionRefs
        /\ outcome.r \notin {self_TRUE, self_FALSE}
        /\ Cardinality(Testing("a", outcome.r)) = 1
        /\ Cardinality(Testing("b", outcome.r)) = 2
        /\ \A i \in ReachableFrom(node_list, outcome.r) \cap DecisionRefs :
              node_list[i + 1].low_child # node_list[i + 1].high_child

\* parse("a ^ b") has returned, on a manager of ordering ["a", "b"] that had
\* created b's node before a's, a reference that denotes the parity of a, b.
C7_Witness ==
    /\ XorParsed
    /\ Returned
    /\ node_list[3] = DecisionNode("b", self_FALSE, self_TRUE)
    /\ \A asg \in Assignments : Follow(node_list, outcome.r, asg) = (asg["a"] # asg["b"])

\* C8 (transitivity tautology): under each of the six orderings of A, B, C,
\* parse("((A -> B) & (B -> C)) -> (A -> C)") returns reference 1, on a fresh
\* manager and on any other.
C8_TransitivityIsTrue ==
    (variable_ordering \in Permutations3
        /\ call = [name |-> "parse", formula |-> F_transitivity])
    => outcome = [exc |-> NoExc, r |-> self_TRUE]

\* The formula parsed to 1 under ordering C, A, B, the store being the one
\* the parse builds from a fresh manager.
C8_Witness ==
    /\ variable_ordering = <<"C", "A", "B">>
    /\ call = [name |-> "parse", formula |-> F_transitivity]
    /\ outcome = [exc |-> NoExc, r |-> self_TRUE]
    /\ ~earlier.done
    /\ node_list = Parse(NewManager, F_transitivity).s.node_list

\* C9 as claimed: get_node returns the node of an issued reference and fails
\* with IndexError (OutOfRange) for every other integer, negative ones
\* included.
C9_GetFailsOutsideIssued ==
    call.name = "get_node" =>
        IF call.index \in Refs
        THEN outcome = [exc |-> NoExc, r |-> node_list[call.index + 1]]
        ELSE outcome = [exc |-> IndexError]

\* The error kinds of a parse, by the exceptions that stand for them.
UnknownVariable == {UnknownVariableError}
UnexpectedToken ==
    {EndOfFormulaError, MissingParenError, UnexpectedTokenError, TrailingTokensError}

Extends(longer, shorter) ==
    /\ Len(shorter) <= Len(longer)
    /\ SubSeq(longer, 1, Len(shorter)) = shorter

SameOutcome(before, after) ==
    /\ before.exc = after.exc
    /\ before.exc = NoExc =>
          \A asg \in Assignments :
              Follow(before.s.node_list, before.r, asg)
                  = Follow(after.s.node_list, after.r, asg)

\* The formulas of the later parse: two that can succeed and one of each way
\* of failing.
LaterFormulas ==
    {F_b_and_a, F_C_and_A, F_a_and_z, F_unclosed, F_empty, F_trailing}

FailedParseIsHarmless ==
    (call'.name = "parse" /\ outcome'.exc \in UnknownVariable \cup UnexpectedToken) =>
        /\ Extends(node_list', node_list)
        /\ node_list'[self_FALSE + 1] = TerminalNode(FALSE)
        /\ node_list'[self_TRUE + 1] = TerminalNode(TRUE)
        /\ NoRedundantNode'
        /\ StoredOnce'
        /\ IndexExact'
        /\ C5_OrderingInvariant'
        /\ \A f \in LaterFormulas : SameOutcome(Parse(Self, f), Parse(Self', f))

\* C10 (a failed parse does not corrupt the manager): when parse raises
\* UnknownVariable or UnexpectedToken, the store afterwards extends the store
\* before the call, the terminals are still at 0 and 1, every node of the
\* store satisfies reduction rules 1 and 2 and the ordering invariant, and
\* every later parse raises or returns as it would have without the failed
\* call, returning a reference that denotes the same function.
C10_FailedParseIsHarmless == [][FailedParseIsHarmless]_vars

\* parse("a & z") has raised UnknownVariable after it consumed three tokens
\* and with the node of a in the store.
C10_Witness ==
    /\ call = [name |-> "parse", formula |-> F_a_and_z]
    /\ outcome.exc \in UnknownVariable
    /\ current_pos = 3
    /\ DecisionNode("a", self_FALSE, self_TRUE) \in DOMAIN node_to_index

\* The grammar of the formulas, read as a recogniser of token sequences:
\* Ends(toks, rule, i) is the set of positions at which a phrase of the rule
\* that starts at token i can end (the position of the token after it).
\* Rules 1 to 5 are iff, implies, xor, or, and; rule 6 is not; rule 7 is
\* primary.
BinaryOperator == <<"<->", "->", "^", "|", "&">>
NotRule == Len(BinaryOperator) + 1
PrimaryRule == NotRule + 1
IsIdentifier(token) == token \notin {"(", ")", "&", "|", "~", "^", "->", "<->"}

RECURSIVE Ends(_, _, _)
RECURSIVE Repeats(_, _, _)

\* ( operator operand )* from position j on.
Repeats(toks, rule, j) ==
    {j} \cup
    IF j <= Len(toks) /\ toks[j] = BinaryOperator[rule]
    THEN UNION {Repeats(toks, rule, k) : k \in Ends(toks, rule + 1, j + 1)}
    ELSE {}

Ends(toks, rule, i) ==
    IF rule < NotRule
    THEN UNION {Repeats(toks, rule, k) : k \in Ends(toks, rule + 1, i)}
    ELSE IF i > Len(toks) THEN {}
    ELSE IF rule = NotRule
    THEN IF toks[i] = "~" THEN Ends(toks, NotRule, i + 1)
         ELSE Ends(toks, PrimaryRule, i)
    ELSE IF toks[i] = "("
    THEN {k + 1 : k \in {e \in Ends(toks, 1, i + 1) :
                            e <= Len(toks) /\ toks[e] = ")"}}
    ELSE IF IsIdentifier(toks[i]) THEN {i + 1}
    ELSE {}

FitsGrammar(toks) == (Len(toks) + 1) \in Ends(toks, 1, 1)

KnownIdentifiers(toks) ==
    \A i \in 1..Len(toks) :
        IsIdentifier(toks[i]) => toks[i] \in DOMAIN var_level

\* parse has just returned or raised on a formula whose tokens do not fit.
ParsedMalformed ==
    /\ call.name = "parse"
    /\ ~FitsGrammar(Tokenize(RemoveSpaces(call.formula)))

\* C11 as stated (malformed formulas are rejected with UnexpectedToken):
\* whenever the tokens of the formula do not fit the grammar, parse raises
\* UnexpectedToken and returns no reference.
C11_MalformedIsUnexpectedToken ==
    ParsedMalformed =>
        /\ outcome.exc \in UnexpectedToken
        /\ "r" \notin DOMAIN outcome

\* C11 as the code has it: whenever the tokens of the formula do not fit the
\* grammar, parse raises and returns no reference; it raises UnexpectedToken
\* when every identifier of the formula is in the ordering, and
\* UnexpectedToken or UnknownVariable when one is not.
C11_MalformedIsRejected ==
    ParsedMalformed =>
        /\ outcome.exc \in UnexpectedToken \cup UnknownVariable
        /\ KnownIdentifiers(Tokenize(RemoveSpaces(call.formula)))
              => outcome.exc \in UnexpectedToken
        /\ "r" \notin DOMAIN outcome

\* parse("(a & b") has raised for the missing parenthesis, with the nodes of
\* a, b and a & b in the store.
C11_Witness ==
    /\ call = [name |-> "parse", formula |-> F_unclosed]
    /\ outcome = [exc |-> MissingParenError]
    /\ current_pos = 4
    /\ Len(node_list) = 5

\* The variable levels an operand still has below it: none for a terminal.
Remaining(ref) == Len(variable_ordering) - TopLevel(ref)

Operands(frame) ==
    IF frame.op = "NOT" THEN <<frame.node_idx>> ELSE <<frame.idx1, frame.idx2>>

MaxRemaining(frame) ==
    CHOOSE m \in {Remaining(Operands(frame)[i]) : i \in DOMAIN Operands(frame)} :
        \A i \in DOMAIN Operands(frame) : Remaining(Operands(frame)[i]) <= m

IsChildOf(child, ref) ==
    /\ ~is_terminal(node_list[ref + 1])
    /\ child \in {node_list[ref + 1].low_child, node_list[ref + 1].high_child}

\* callee is called by caller: each operand is the caller's or a child of
\* the caller's of strictly greater level, one at least is a child, and the
\* maximum of the remaining levels of the operands is strictly less.
Descends(caller, callee) ==
    /\ callee.op = caller.op
    /\ \A i \in DOMAIN Operands(caller) :
          \/ Operands(callee)[i] = Operands(caller)[i]
          \/ /\ IsChildOf(Operands(callee)[i], Operands(caller)[i])
             /\ TopLevel(Operands(callee)[i]) > TopLevel(Operands(caller)[i])
    /\ \E i \in DOMAIN Operands(caller) :
          Operands(callee)[i] # Operands(caller)[i]
    /\ MaxRemaining(callee) < MaxRemaining(caller)

\* A recursive call starts in this step.
RecursiveCallStarts ==
    /\ stack' # stack
    /\ Len(stack') >= 2
    /\ stack'[Len(stack')].pc = "enter"

\* A call returns in this step without having called itself.
BaseCaseReturns ==
    /\ ~Idle
    /\ Top.pc = "enter"
    /\ stack' # <<>>
    /\ Len(stack') = Len(stack)
    /\ stack'[Len(stack')].pc = "done"

RecursionDescends ==
    /\ RecursiveCallStarts =>
          Descends(stack'[Len(stack') - 1], stack'[Len(stack')])
    /\ BaseCaseReturns =>
          \E i \in DOMAIN Operands(Top) : is_terminal(node_list[Operands(Top)[i] + 1])

\* The calls in progress, the public call included, are at most as many as
\* the variables of the ordering.
StackWithinVariables == Len(stack) <= Len(variable_ordering)

\* The recursive calls in progress below the public call are at most as
\* many as the variables of the ordering.
DepthBounded == ~Idle => Len(stack) - 1 <= Len(variable_ordering)

ApplyReturned ==
    /\ Idle
    /\ call.name \in {"NOT", "AND"}
    /\ outcome.exc = NoExc
    /\ outcome.r \in Refs

\* C12 as stated (Apply terminates), the depth of the recursion being the
\* number of calls in progress: every call of NOT(x) and AND(a, b) on issued
\* references eventually returns, every recursive call strictly decreases
\* the maximum remaining level of the operands, and the calls in progress
\* never exceed the number of variables.
C12_DepthWithinVariables ==
    /\ []StackWithinVariables
    /\ [][RecursionDescends]_vars
    /\ (~Idle) ~> ApplyReturned

\* C12 (Apply terminates) as the code has it: on a store built through the
\* public operations, every call of NOT(x) and AND(a, b) on issued
\* references eventually returns a reference; every recursive call takes
\* the operands of its caller with one at least replaced by a child of
\* strictly greater level, so that the maximum of the remaining levels of
\* the operands strictly decreases; a call returns without a recursive call
\* only when an operand is a terminal; and the recursive calls in progress
\* below the public call never exceed the number of variables, which is one
\* call more when the public call is counted.
C12_ApplyTerminates ==
    /\ []DepthBounded
    /\ [][RecursionDescends]_vars
    /\ (~Idle) ~> ApplyReturned

\* AND is in progress under the ordering a, b with as many recursive calls
\* below the public call as there are variables, the innermost at a base
\* case.
C12_Witness ==
    /\ variable_ordering = <<"a", "b">>
    /\ Len(stack) - 1 = Len(variable_ordering)
    /\ stack[1].op = "AND"
    /\ Top.pc = "done"

====
